---- MODULE Spec2Model ----
(***************************************************************************)
(* Model of homeassistant/auth/providers/ldap.py: the LDAP auth provider   *)
(* (LdapAuthProvider.async_validate_login) and its login flow              *)
(* (LdapLoginFlow.async_step_init).                                        *)
(*                                                                         *)
(* The directory server and the ldap3 client library are the environment:  *)
(* the directory is an ordered list of person entries, the network may     *)
(* fail at connect, at the TLS negotiation or during the search.  Every    *)
(* call the provider makes on the library is recorded, in order, in the    *)
(* trace of the attempt, the way a test double of the transport would.     *)
(***************************************************************************)
EXTENDS Integers, Sequences, FiniteSets, TLC

VARIABLES
    config,     \* self.config of the provider; never written after construction
    directory,  \* the person entries below base_dn, in the order the server returns them
    flow,       \* the LdapLoginFlow in progress: its state and what its last step returned
    attempt,    \* what the latest call of the step did: inputs, library calls, exception
    failed,     \* how many calls of the step with input this flow has seen fail
    host,       \* the host's side: credentials issued, calls of async_get_or_create_credentials in flight
    runs        \* runs of async_validate_login executed step by step, side by side

vars == <<config, directory, flow, attempt, failed, host, runs>>

(***************************************************************************)
(* Bounds                                                                  *)
(***************************************************************************)
\* Largest number of person entries in the directory.
MaxEntries == 2
\* Largest number of failed calls counted on one flow.
MaxFailed == 2
\* Largest number of calls of async_get_or_create_credentials in flight.
MaxPending == 2

(***************************************************************************)
(* Strings that the code iterates over or lower-cases are sequences of     *)
(* one-character strings; str.lower() is computed character by character.  *)
(***************************************************************************)
LowerChar(c) ==
    CASE c = "C" -> "c"
      [] c = "N" -> "n"
      [] c = "S" -> "s"
      [] c = "T" -> "t"
      [] c = "A" -> "a"
      [] c = "D" -> "d"
      [] c = "O" -> "o"
      [] c = "P" -> "p"
      [] OTHER -> c

Lower(s) == [i \in 1..Len(s) |-> LowerChar(s[i])]

\* Group distinguished names, abbreviated ("cn=st" stands for "cn=staff,dc=example,dc=com").
GroupStaff == <<"c", "n", "=", "s", "t">>
GroupStaffUpper == <<"C", "N", "=", "S", "t">>
GroupOps == <<"c", "n", "=", "o", "p">>
GroupAdmins == <<"C", "N", "=", "a", "d">>

(***************************************************************************)
(* Python values                                                           *)
(***************************************************************************)
None == [t |-> "none", v |-> <<>>]
Str(s) == [t |-> "str", v |-> s]
List(l) == [t |-> "list", v |-> l]

\* ldap3 Attribute.value: None without values, the value itself when there is
\* exactly one, the list of values otherwise.
AttrValue(values) ==
    IF Len(values) = 0 THEN None
    ELSE IF Len(values) = 1 THEN Str(values[1])
    ELSE List(values)

\* What "for g in x" yields: the elements of a list, the characters of a str.
\* Iterating None raises TypeError (Iterable is FALSE).
Iterable(x) == x.t # "none"
Iterate(x) ==
    IF x.t = "list" THEN x.v
    ELSE [i \in 1..Len(x.v) |-> <<x.v[i]>>]

(***************************************************************************)
(* The directory (environment)                                             *)
(***************************************************************************)
BaseDN == "dc=example,dc=com"
UsernameAttr == "uid"

MkDN(attr, name, base) == <<attr, name, base>>

Names == {"alice", "bob", "carol"}

PasswordOf(name) ==
    CASE name = "alice" -> "pwA"
      [] name = "bob" -> "pwB"
      [] name = "carol" -> "pwC"
      [] OTHER -> "svcpw"

\* memberOf of each person: alice has exactly one value, bob two, carol none.
MemberOf(name) ==
    CASE name = "alice" -> <<GroupStaff>>
      [] name = "bob" -> <<GroupOps, GroupStaff>>
      [] OTHER -> <<>>

DisplayNameOf(name) ==
    CASE name = "alice" -> <<"Alice A">>
      [] name = "bob" -> <<"Bob B">>
      [] OTHER -> <<>>

\* The account name Active Directory keeps for a person.
SamOf(name) ==
    CASE name = "alice" -> "ALICE"
      [] name = "bob" -> "BOB"
      [] OTHER -> "CAROL"

Person(name) ==
    [name |-> name,
     entry_dn |-> MkDN(UsernameAttr, name, BaseDN),
     uid |-> <<name>>,
     sAMAccountName |-> <<SamOf(name)>>,
     displayName |-> DisplayNameOf(name),
     memberOf |-> MemberOf(name)]

\* The service account is an account of the directory but no person entry.
ServiceName == "svc"
ServicePassword == "svcpw"

\* Sequences of distinct names, of length at most n.
RECURSIVE DistinctSeqs(_)
DistinctSeqs(n) ==
    IF n = 0 THEN {<<>>}
    ELSE LET shorter == DistinctSeqs(n - 1)
             longest == {t \in shorter : Len(t) = n - 1}
             Fresh(t) == {x \in Names : \A i \in 1..Len(t) : t[i] # x}
         IN shorter \cup UNION {{Append(t, x) : x \in Fresh(t)} : t \in longest}

Directories == DistinctSeqs(MaxEntries)

InDirectory(dir, name) == \E i \in 1..Len(dir) : dir[i] = name

\* The directory server deciding a bind.  A simple bind names an entry by its
\* distinguished name, an NTLM bind names an account by its raw name (<<name>>).
ServerAccepts(dir, auth, user, password) ==
    \/ /\ user = (IF auth = "NTLM" THEN <<ServiceName>>
                  ELSE MkDN(UsernameAttr, ServiceName, BaseDN))
       /\ password = ServicePassword
    \/ \E i \in 1..Len(dir) :
          /\ user = (IF auth = "NTLM" THEN <<dir[i]>> ELSE Person(dir[i]).entry_dn)
          /\ password = PasswordOf(dir[i])

\* Network faults of one attempt.
Faults == {"none", "connect", "tls", "search_timeout"}

\* ldap3 opens the socket before it binds; with use_ssl the TLS handshake is
\* part of opening it.
SocketOpens(cfg, fault) ==
    /\ fault # "connect"
    /\ ~(cfg.encryption = "ldaps" /\ fault = "tls")

\* The directory server answering the search (objectclass=person) with
\* size_limit=1: the first person entry below the base DN, whoever is asking.
ServerSearch(dir, fault) ==
    IF fault = "search_timeout" \/ Len(dir) = 0 THEN <<>> ELSE <<dir[1]>>

(***************************************************************************)
(* The trace of an attempt                                                 *)
(***************************************************************************)
Call(op, user, password, ok) == [op |-> op, user |-> user, password |-> password, ok |-> ok]

NoAttempt ==
    [called |-> FALSE, username |-> "-", password |-> "-", fault |-> "none",
     exc |-> "None", detail |-> None, calls |-> <<>>, entry |-> "-",
     uid |-> None, display_name |-> None, group_checked |-> FALSE, member |-> FALSE]

NewAttempt(username, password, fault) ==
    [NoAttempt EXCEPT !.called = TRUE, !.username = username,
                      !.password = password, !.fault = fault]

Log(t, call) == [t EXCEPT !.calls = Append(t.calls, call)]
Raise(t, exc) == [t EXCEPT !.exc = exc]
RaiseWith(t, exc, detail) == [t EXCEPT !.exc = exc, !.detail = detail]

HasCall(t, op) == \E i \in 1..Len(t.calls) : t.calls[i].op = op

(***************************************************************************)
(* LdapAuthProvider.async_validate_login                                   *)
(***************************************************************************)
BindUsername(cfg, username) ==
    IF cfg.bind_as_user THEN cfg.bind_username ELSE username

\* A bind that always sends the submitted password.
BindPassword_Submitted(cfg, password) == password

BindPassword(cfg, password) ==
    IF cfg.bind_as_user THEN cfg.bind_password ELSE password

UsernameAttrOf(cfg) ==
    IF cfg.active_directory THEN "sAMAccountName" ELSE cfg.username_attribute

BindAuth(cfg) == IF cfg.active_directory THEN "NTLM" ELSE "SIMPLE"

BindUser(cfg, username) ==
    IF cfg.active_directory
    THEN <<BindUsername(cfg, username)>>
    ELSE MkDN(UsernameAttrOf(cfg), BindUsername(cfg, username), cfg.base_dn)

NeedsStartTls(cfg) == cfg.encryption = "starttls"

EntryAttr(e, attr) ==
    IF attr = "sAMAccountName" THEN e.sAMAccountName ELSE e.uid

\* member after the loop over the allow-list: some allowed group, lower-cased,
\* is among the lower-cased items that iterating user_groups yields.
IsMember(allowed, user_groups) ==
    LET items == Iterate(user_groups)
        lowered == {Lower(items[j]) : j \in 1..Len(items)}
    IN \E i \in 1..Len(allowed) : Lower(allowed[i]) \in lowered

NeedsRebind(cfg) == ~cfg.bind_as_user

\* Lines 181-186: check the credentials by re-binding the same connection.
CheckCredentials(cfg, dir, t, e) ==
    IF NeedsRebind(cfg)
    THEN LET ok == ServerAccepts(dir, "SIMPLE", e.entry_dn, t.password)
             t6 == Log(t, Call("rebind", e.entry_dn, t.password, ok))
         IN IF ~ok THEN Raise(t6, "InvalidAuthError") ELSE t6
    ELSE t

\* Lines 155-179: read the entry, then check the group membership.
CheckEntry(cfg, dir, t, e) ==
    LET uid == AttrValue(EntryAttr(e, UsernameAttrOf(cfg)))
        t4 == [t EXCEPT !.entry = e.name, !.uid = uid,
                        !.display_name = AttrValue(e.displayName)]
    IN IF Len(cfg.allowed_group_dns) > 0
       THEN LET user_groups == AttrValue(e.memberOf)
                t5 == [t4 EXCEPT !.group_checked = TRUE]
            IN IF ~Iterable(user_groups) THEN Raise(t5, "TypeError")
               ELSE IF ~IsMember(cfg.allowed_group_dns, user_groups)
               THEN RaiseWith(t5, "InvalidAuthError", uid)
               ELSE CheckCredentials(cfg, dir, [t5 EXCEPT !.member = TRUE], e)
       ELSE CheckCredentials(cfg, dir, t4, e)

\* Lines 137-154: upgrade to TLS if asked to, then search for the person.
\* Line 140 reads conn.starttls; an ldap3 Connection has start_tls and no
\* starttls, so reading the attribute raises AttributeError: nothing is sent
\* to the server, and the search is not reached.
UpgradeAndSearch(cfg, dir, t) ==
    IF NeedsStartTls(cfg)
    THEN Raise(t, "AttributeError")
    ELSE LET entries == ServerSearch(dir, t.fault)
             t3 == Log(t, Call("search", <<cfg.base_dn>>, "-", Len(entries) > 0))
         IN IF Len(entries) = 0 THEN Raise(t3, "LdapError")
            ELSE CheckEntry(cfg, dir, t3, Person(entries[1]))

\* Lines 106-112: with bind_as_user set, self.config is indexed by the two
\* optional keys of the schema; an absent one raises KeyError.
MissingKey(cfg) ==
    cfg.bind_as_user /\ (cfg.bind_username = "-" \/ cfg.bind_password = "-")

\* Lines 91-135: the connection, opened and bound by auto_bind.
Connect(cfg, dir, t) ==
    IF MissingKey(cfg) THEN Raise(t, "KeyError")
    ELSE IF ~SocketOpens(cfg, t.fault)
    THEN Raise(Log(t, Call("open", <<>>, "-", FALSE)), "LDAPSocketOpenError")
    ELSE LET user == BindUser(cfg, t.username)
             password == BindPassword(cfg, t.password)
             ok == ServerAccepts(dir, BindAuth(cfg), user, password)
             t1 == Log(Log(t, Call("open", <<>>, "-", TRUE)),
                       Call("bind", user, password, ok))
         IN IF ~ok THEN Raise(t1, "LDAPBindError")
            ELSE UpgradeAndSearch(cfg, dir, t1)

\* The function without its except clause: a rejected bind leaves it as the
\* library's LDAPBindError.
ExceptBindError_Missing(exc) == exc

\* Lines 188-190: the one except clause of the function.
ExceptBindError(exc) ==
    IF exc = "LDAPBindError" THEN "InvalidAuthError" ELSE exc

async_validate_login(cfg, dir, fault, username, password) ==
    LET t == Connect(cfg, dir, NewAttempt(username, password, fault))
    IN [t EXCEPT !.exc = ExceptBindError(t.exc)]

(***************************************************************************)
(* LdapLoginFlow.async_step_init                                           *)
(*                                                                         *)
(* A dict is the set of its <<key, value>> pairs.                          *)
(***************************************************************************)
Keys(d) == {kv[1] : kv \in d}
\* A pop that leaves the dict as it was.
Pop_KeepsKey(d, key) == d

Pop(d, key) == {kv \in d : kv[1] # key}
UserInput(username, password) == {<<"username", username>>, <<"password", password>>}

FreshFlow ==
    [state |-> "awaiting_credentials", type |-> "none", step_id |-> "-",
     schema |-> <<>>, errors |-> {}, data |-> {}, exc |-> "None"]

\* LoginFlow.async_show_form: the form shown again; the flow stays in progress.
async_show_form(step_id, schema, errors) ==
    [FreshFlow EXCEPT !.type = "form", !.step_id = step_id,
                      !.schema = schema, !.errors = errors]

\* LoginFlow.async_finish: the flow ends with the payload it was given.
async_finish(flow_result) ==
    [FreshFlow EXCEPT !.state = "completed", !.type = "create_entry",
                      !.data = flow_result]

\* An exception leaving the step: the caller gets no result; the flow is
\* still in progress.
Unhandled(exc) == [FreshFlow EXCEPT !.type = "raised", !.exc = exc]

\* The step with LdapError handled like InvalidAuthError.
ErrorsFor_AllInvalidAuth(exc) ==
    IF exc \in {"InvalidAuthError", "LdapError"} THEN {<<"base", "invalid_auth">>}
    ELSE {}

\* Lines 225-233: the two except clauses of the step.
ErrorsFor(exc) ==
    IF exc = "InvalidAuthError" THEN {<<"base", "invalid_auth">>}
    ELSE IF exc = "LdapError" THEN {<<"base", "error">>}
    ELSE {}

Escapes(exc) == exc \notin {"None", "InvalidAuthError", "LdapError"}

FormSchema == <<"username", "password">>

\* A step that hands on the canonical username read from the directory.
StepResult_Canonical(t, user_input) ==
    IF Escapes(t.exc) THEN Unhandled(t.exc)
    ELSE IF ErrorsFor(t.exc) = {} THEN async_finish({<<"username", t.uid.v>>})
    ELSE async_show_form("init", FormSchema, ErrorsFor(t.exc))

\* What the step returns for an attempt t made with user_input.
StepResult(t, user_input) ==
    IF Escapes(t.exc) THEN Unhandled(t.exc)
    ELSE IF ErrorsFor(t.exc) = {} THEN async_finish(Pop(user_input, "password"))
    ELSE async_show_form("init", FormSchema, ErrorsFor(t.exc))

(***************************************************************************)
(* Configurations                                                          *)
(***************************************************************************)
AllowLists == {<<>>, <<GroupStaffUpper>>, <<GroupAdmins>>, <<GroupAdmins, GroupStaffUpper>>}

\* bind_username and bind_password are optional keys, read only when
\* bind_as_user is set; "-" stands for an absent key.  The schema admits
\* every combination of the flag with a present or an absent password.
Configs ==
    {[active_directory |-> ad, allowed_group_dns |-> al, base_dn |-> BaseDN,
      bind_as_user |-> bu, bind_username |-> IF bu THEN ServiceName ELSE "-",
      bind_password |-> bp, encryption |-> enc, username_attribute |-> UsernameAttr] :
        ad \in BOOLEAN, al \in AllowLists, bu \in BOOLEAN,
        bp \in {ServicePassword, "oldpw", "-"}, enc \in {"ldaps", "none", "starttls"}}

Usernames == Names
Passwords == {"pwA", "pwB"}

(***************************************************************************)
(* The host's credentials                                                  *)
(***************************************************************************)
Get(d, key) == (CHOOSE kv \in d : kv[1] = key)[2]

\* No credential issued, no call in flight, nothing returned yet.
NoHost == [credentials |-> <<>>, pending |-> <<>>, returned |-> 0]

\* AuthProvider.async_credentials: the credentials issued for this provider.
async_credentials(h) == h.credentials

\* AuthProvider.async_create_credentials: a new credential holding data, with
\* the others of the provider from then on.
async_create_credentials(h, data) ==
    [h EXCEPT !.credentials = Append(h.credentials, data),
              !.returned = Len(h.credentials) + 1]

\* A resolution that skips the lookup and creates a credential every time.
GetOrCreate_AlwaysCreates(h, flow_result) ==
    async_create_credentials(h, {<<"username", Get(flow_result, "username")>>})

\* Lines 196-203 from the point where async_credentials() has answered: the
\* first credential whose username is that of flow_result, or a new one.
GetOrCreate(h, flow_result) ==
    LET username == Get(flow_result, "username")
        credentials == async_credentials(h)
        found == {i \in 1..Len(credentials) : Get(credentials[i], "username") = username}
    IN IF found # {}
       THEN [h EXCEPT !.returned = CHOOSE i \in found : \A j \in found : i <= j]
       ELSE async_create_credentials(h, {<<"username", username>>})

RemoveAt(seq, i) == [j \in 1..(Len(seq) - 1) |-> IF j < i THEN seq[j] ELSE seq[j + 1]]

(***************************************************************************)
(* Runs of async_validate_login side by side                               *)
(*                                                                         *)
(* A run is one call of async_validate_login taken one ldap3 call at a     *)
(* time.  Everything it works with is local to the call: its arguments and *)
(* trace (t), the entries its own conn holds, and where it stands (pc).    *)
(* In the event loop a call runs from start to end without a break, which  *)
(* is one of the interleavings; in worker threads the calls of the library *)
(* are where runs can alternate.                                           *)
(***************************************************************************)
Runs == {"r1", "r2"}
IdleRun == [pc |-> "idle", t |-> NoAttempt, entries |-> <<>>, overlapped |-> FALSE]
IdleRuns == [r \in Runs |-> IdleRun]

\* The run goes on at pc with its trace so far.
At(c, pc, t) == [c EXCEPT !.pc = pc, !.t = t]

\* The call ends, by return or by raise; what was raised passes the except
\* clause of lines 188-190.
Return(c, t) == At(c, "done", [t EXCEPT !.exc = ExceptBindError(t.exc)])

\* Lines 121-135: the connection, opened and bound by auto_bind.
RunConnect(cfg, dir, rs, r) ==
    LET c == rs[r]
        t == c.t
    IN IF MissingKey(cfg) THEN Return(c, Raise(t, "KeyError"))
       ELSE IF ~SocketOpens(cfg, t.fault)
       THEN Return(c, Raise(Log(t, Call("open", <<>>, "-", FALSE)), "LDAPSocketOpenError"))
       ELSE LET user == BindUser(cfg, t.username)
                password == BindPassword(cfg, t.password)
                ok == ServerAccepts(dir, BindAuth(cfg), user, password)
                t1 == Log(Log(t, Call("open", <<>>, "-", TRUE)),
                          Call("bind", user, password, ok))
            IN IF ~ok THEN Return(c, Raise(t1, "LDAPBindError"))
               ELSE At(c, IF NeedsStartTls(cfg) THEN "starttls" ELSE "search", t1)

\* Lines 139-140: conn.starttls is no attribute of an ldap3 Connection; the
\* run ends here with AttributeError.
RunStartTls(cfg, dir, rs, r) ==
    LET c == rs[r]
    IN Return(c, Raise(c.t, "AttributeError"))

\* Lines 146-154: the search; its entries stay with the run's conn.
RunSearch(cfg, dir, rs, r) ==
    LET c == rs[r]
        t == c.t
        entries == ServerSearch(dir, t.fault)
        t3 == Log(t, Call("search", <<cfg.base_dn>>, "-", Len(entries) > 0))
    IN IF Len(entries) = 0 THEN Return(c, Raise(t3, "LdapError"))
       ELSE [At(c, "entry", t3) EXCEPT !.entries = entries]

\* Lines 155-179: read conn.entries[0], then check the group membership.
RunCheckEntry(cfg, dir, rs, r) ==
    LET c == rs[r]
        e == Person(c.entries[1])
        uid == AttrValue(EntryAttr(e, UsernameAttrOf(cfg)))
        t4 == [c.t EXCEPT !.entry = e.name, !.uid = uid,
                          !.display_name = AttrValue(e.displayName)]
        Checked(t) == IF NeedsRebind(cfg) THEN At(c, "rebind", t) ELSE Return(c, t)
    IN IF Len(cfg.allowed_group_dns) > 0
       THEN LET user_groups == AttrValue(e.memberOf)
                t5 == [t4 EXCEPT !.group_checked = TRUE]
            IN IF ~Iterable(user_groups) THEN Return(c, Raise(t5, "TypeError"))
               ELSE IF ~IsMember(cfg.allowed_group_dns, user_groups)
               THEN Return(c, RaiseWith(t5, "InvalidAuthError", uid))
               ELSE Checked([t5 EXCEPT !.member = TRUE])
       ELSE Checked(t4)

\* A re-bind whose password is kept where every run can write it: once the
\* other run has started, it is that run's password.
RunRebind_SharedPassword(cfg, dir, rs, r) ==
    LET c == rs[r]
        e == Person(c.entries[1])
        q == CHOOSE q \in DOMAIN rs : q # r
        password == IF rs[q].pc # "idle" THEN rs[q].t.password ELSE c.t.password
        ok == ServerAccepts(dir, "SIMPLE", e.entry_dn, password)
        t6 == Log(c.t, Call("rebind", e.entry_dn, password, ok))
    IN Return(c, IF ~ok THEN Raise(t6, "InvalidAuthError") ELSE t6)

\* Lines 181-186: the re-bind of the run's own conn with the run's own password.
RunRebind(cfg, dir, rs, r) ==
    LET c == rs[r]
        e == Person(c.entries[1])
        ok == ServerAccepts(dir, "SIMPLE", e.entry_dn, c.t.password)
        t6 == Log(c.t, Call("rebind", e.entry_dn, c.t.password, ok))
    IN Return(c, IF ~ok THEN Raise(t6, "InvalidAuthError") ELSE t6)

\* Whether some other run is between its first and its last step.
OtherUnderWay(rs, r) == \E q \in DOMAIN rs : q # r /\ rs[q].pc \notin {"idle", "done"}

\* Run r takes a step to c while the other runs stay where they are.
Stepped(rs, r, c) ==
    [rs EXCEPT ![r] = [c EXCEPT !.overlapped = c.overlapped \/ OtherUnderWay(rs, r)]]

(***************************************************************************)
(* The state machine                                                       *)
(***************************************************************************)
Init ==
    /\ config \in Configs
    /\ directory \in Directories
    /\ flow = FreshFlow
    /\ attempt = NoAttempt
    /\ failed = 0
    /\ host = NoHost
    /\ runs = IdleRuns

\* LdapAuthProvider.async_login_flow: a new LdapLoginFlow.
async_login_flow ==
    /\ flow' = FreshFlow
    /\ attempt' = NoAttempt
    /\ failed' = 0
    /\ UNCHANGED <<config, directory, host, runs>>

\* async_step_init(None): the form, without errors.
async_step_init_no_input ==
    /\ flow.state = "awaiting_credentials"
    /\ flow' = async_show_form("init", FormSchema, {})
    /\ attempt' = NoAttempt
    /\ UNCHANGED <<config, directory, failed, host, runs>>

\* A step that locks the flow after its first failed call: later calls are
\* answered 'invalid_auth' whatever the attempt found.
async_step_init_Lockout ==
    /\ flow.state = "awaiting_credentials"
    /\ \E username \in Usernames, password \in Passwords, fault \in Faults :
          LET t == async_validate_login(config, directory, fault, username, password)
          IN /\ attempt' = t
             /\ flow' = IF failed >= 1
                        THEN async_show_form("init", FormSchema, {<<"base", "invalid_auth">>})
                        ELSE StepResult(t, UserInput(username, password))
    /\ IF flow'.state = "completed"
       THEN failed' = failed
       ELSE failed < MaxFailed /\ failed' = failed + 1
    /\ UNCHANGED <<config, directory, host, runs>>

\* async_step_init(user_input): one attempt, and what it is mapped to.
async_step_init ==
    /\ flow.state = "awaiting_credentials"
    /\ \E username \in Usernames, password \in Passwords, fault \in Faults :
          LET t == async_validate_login(config, directory, fault, username, password)
          IN /\ attempt' = t
             /\ flow' = StepResult(t, UserInput(username, password))
    /\ IF flow'.state = "completed"
       THEN failed' = failed
       ELSE failed < MaxFailed /\ failed' = failed + 1
    /\ UNCHANGED <<config, directory, host, runs>>

Next == async_login_flow \/ async_step_init_no_input \/ async_step_init

Spec == Init /\ [][Next]_vars

(***************************************************************************)
(* The login flow together with the host's credential resolution           *)
(***************************************************************************)
\* The host takes the completion of the flow, removes the flow and calls
\* async_get_or_create_credentials with its payload; the call runs up to its
\* await of async_credentials().
async_get_or_create_credentials_call ==
    /\ flow.state = "completed"
    /\ Len(host.pending) < MaxPending
    /\ host' = [host EXCEPT !.pending = Append(@, flow.data)]
    /\ flow' = [flow EXCEPT !.state = "removed"]
    /\ UNCHANGED <<config, directory, attempt, failed, runs>>

\* A call in flight resumes with the credentials and runs to its return.
async_get_or_create_credentials ==
    /\ \E i \in 1..Len(host.pending) :
          host' = [GetOrCreate(host, host.pending[i])
                     EXCEPT !.pending = RemoveAt(host.pending, i)]
    /\ UNCHANGED <<config, directory, flow, attempt, failed, runs>>

\* The configurations and directories the credential resolution is explored
\* with: no allow-list, implicit TLS, a service account whose password is
\* right or absent, no password kept for a bind as the end user, and one
\* person in the directory.
HostConfigs ==
    {cfg \in Configs : /\ (~cfg.bind_as_user => cfg.bind_password = "-")
                       /\ ~cfg.active_directory
                       /\ cfg.encryption = "ldaps"
                       /\ cfg.allowed_group_dns = <<>>
                       /\ cfg.bind_password # "oldpw"}

InitHost ==
    /\ config \in HostConfigs
    /\ directory \in {d \in Directories : Len(d) = 1}
    /\ flow = FreshFlow
    /\ attempt = NoAttempt
    /\ failed = 0
    /\ host = NoHost
    /\ runs = IdleRuns

NextHost ==
    \/ async_login_flow
    \/ async_step_init_no_input
    \/ async_step_init
    \/ async_get_or_create_credentials_call
    \/ async_get_or_create_credentials

SpecHost == InitHost /\ [][NextHost]_vars

(***************************************************************************)
(* Two calls of async_validate_login for different users on one provider,  *)
(* each taken one step at a time                                           *)
(***************************************************************************)
\* Line 88: the call starts with its arguments; the users of two calls differ.
run_start(r) ==
    /\ runs[r].pc = "idle"
    /\ \E username \in Usernames, password \in Passwords, fault \in Faults :
          /\ \A q \in Runs \ {r} : runs[q].t.username # username
          /\ runs' = Stepped(runs, r, At(runs[r], "connect", NewAttempt(username, password, fault)))
    /\ UNCHANGED <<config, directory, flow, attempt, failed, host>>

run_connect(r) ==
    /\ runs[r].pc = "connect"
    /\ runs' = Stepped(runs, r, RunConnect(config, directory, runs, r))
    /\ UNCHANGED <<config, directory, flow, attempt, failed, host>>

run_starttls(r) ==
    /\ runs[r].pc = "starttls"
    /\ runs' = Stepped(runs, r, RunStartTls(config, directory, runs, r))
    /\ UNCHANGED <<config, directory, flow, attempt, failed, host>>

run_search(r) ==
    /\ runs[r].pc = "search"
    /\ runs' = Stepped(runs, r, RunSearch(config, directory, runs, r))
    /\ UNCHANGED <<config, directory, flow, attempt, failed, host>>

run_check_entry(r) ==
    /\ runs[r].pc = "entry"
    /\ runs' = Stepped(runs, r, RunCheckEntry(config, directory, runs, r))
    /\ UNCHANGED <<config, directory, flow, attempt, failed, host>>

run_rebind(r) ==
    /\ runs[r].pc = "rebind"
    /\ runs' = Stepped(runs, r, RunRebind(config, directory, runs, r))
    /\ UNCHANGED <<config, directory, flow, attempt, failed, host>>

\* The providers the runs are watched with: a plain directory, in the clear
\* or to be upgraded to TLS after the bind, and a service account whose
\* password is right or absent.
RunConfigs ==
    {cfg \in Configs : /\ (~cfg.bind_as_user => cfg.bind_password = "-")
                       /\ ~cfg.active_directory
                       /\ cfg.encryption \in {"none", "starttls"}
                       /\ cfg.allowed_group_dns \in {<<>>, <<GroupStaffUpper>>}
                       /\ cfg.bind_password # "oldpw"}

InitRuns ==
    /\ config \in RunConfigs
    /\ directory \in {d \in Directories : Len(d) = MaxEntries}
    /\ flow = FreshFlow
    /\ attempt = NoAttempt
    /\ failed = 0
    /\ host = NoHost
    /\ runs = IdleRuns

NextRuns ==
    \E r \in Runs :
       \/ run_start(r)
       \/ run_connect(r)
       \/ run_starttls(r)
       \/ run_search(r)
       \/ run_check_entry(r)
       \/ run_rebind(r)

SpecRuns == InitRuns /\ [][NextRuns]_vars

(***************************************************************************)
(* What the claims speak of                                                *)
(***************************************************************************)
InvalidAuth == {<<"base", "invalid_auth">>}
GenericError == {<<"base", "error">>}

FormShownWith(errors) ==
    /\ flow.type = "form"
    /\ flow.step_id = "init"
    /\ flow.errors = errors
    /\ flow.state = "awaiting_credentials"

\* The service account of the configuration can bind.
ServiceBindConfigured ==
    /\ config.bind_as_user
    /\ config.bind_password = ServicePassword

\* The network lets the attempt through to the search.
NoTransportFault ==
    /\ SocketOpens(config, attempt.fault)
    /\ ~(NeedsStartTls(config) /\ attempt.fault = "tls")

\* The initial bind of the attempt is one the directory accepts.
InitialBindAccepted ==
    ServerAccepts(directory, BindAuth(config), BindUser(config, attempt.username),
                  BindPassword(config, attempt.password))

\* Membership as the allow-list defines it: some allowed DN equals, ignoring
\* letter case, one of the entry's memberOf values.
ClaimsMembership(allowed, values) ==
    \E i \in 1..Len(allowed), j \in 1..Len(values) : Lower(allowed[i]) = Lower(values[j])

RebindCalls == {i \in 1..Len(attempt.calls) : attempt.calls[i].op = "rebind"}
BindCalls == {i \in 1..Len(attempt.calls) : attempt.calls[i].op \in {"bind", "rebind"}}

(***************************************************************************)
(* C1.  With the service-account bind (bind_as_user = true, correct        *)
(* service credentials), an attempt whose password is wrong for the        *)
(* entry of the submitted username fails with InvalidAuthError through a   *)
(* failed re-bind, and never ends in success or in state 'completed'.      *)
(***************************************************************************)
C1_WrongPasswordCase ==
    /\ attempt.called
    /\ ServiceBindConfigured
    /\ attempt.entry = attempt.username
    /\ attempt.password # PasswordOf(attempt.entry)

C1_WrongPasswordRejected ==
    C1_WrongPasswordCase =>
        /\ attempt.exc # "None"
        /\ flow.state # "completed"

(***************************************************************************)
(* C2.  The re-bind happens if and only if the initial bind was made with  *)
(* the service account: an attempt bound as the end user makes exactly one *)
(* bind and no re-bind, and an attempt bound as the service account that   *)
(* succeeds has re-bound as the discovered entry.                          *)
(***************************************************************************)
C2_RebindIffServiceBind ==
    attempt.called =>
        /\ (~config.bind_as_user => RebindCalls = {} /\ Cardinality(BindCalls) <= 1)
        /\ (config.bind_as_user /\ attempt.exc = "None" => RebindCalls # {})

(***************************************************************************)
(* C3.  With the end user's own credentials as bind credentials            *)
(* (bind_as_user = false), a wrong password makes the initial bind fail:   *)
(* the attempt raises InvalidAuthError, the form is shown again with       *)
(* 'invalid_auth', and the only library calls of the attempt are the open  *)
(* and that one bind: no STARTTLS, no search, no group check, no re-bind.  *)
(* The case is that of a server that was reached (no failure to connect).  *)
(***************************************************************************)
C3_WrongPasswordCase ==
    /\ attempt.called
    /\ ~config.bind_as_user
    /\ SocketOpens(config, attempt.fault)
    /\ attempt.password # PasswordOf(attempt.username)

C3_UserBindRejected ==
    C3_WrongPasswordCase =>
        /\ attempt.exc = "InvalidAuthError"
        /\ FormShownWith(InvalidAuth)
        /\ Len(attempt.calls) = 2
        /\ attempt.calls[1].op = "open"
        /\ attempt.calls[2].op = "bind" /\ ~attempt.calls[2].ok
        /\ ~HasCall(attempt, "starttls")
        /\ ~HasCall(attempt, "search")
        /\ ~HasCall(attempt, "rebind")
        /\ ~attempt.group_checked

C3_Witness ==
    /\ C3_WrongPasswordCase
    /\ InDirectory(directory, attempt.username)
    /\ config.encryption = "starttls"
    /\ Len(config.allowed_group_dns) > 0
    /\ flow.errors = InvalidAuth

(***************************************************************************)
(* C4.  The entry an attempt evaluates is the person entry of the          *)
(* submitted username: whenever that person is in the directory and the    *)
(* attempt gets as far as reading an entry, the canonical username, the    *)
(* groups and the re-bind DN are those of that person.                     *)
(***************************************************************************)
C4_EvaluatesMatchingEntry ==
    (attempt.called /\ attempt.entry # "-" /\ InDirectory(directory, attempt.username)) =>
        /\ attempt.entry = attempt.username
        /\ \A i \in RebindCalls :
              attempt.calls[i].user = Person(attempt.username).entry_dn

(***************************************************************************)
(* C5.  With the service-account bind, correct service credentials, the    *)
(* person in the directory, the right password for it and an allow-list    *)
(* that is empty or names one of its groups, the attempt succeeds with     *)
(* that person's canonical username and display name, and the flow         *)
(* completes.                                                              *)
(***************************************************************************)
C5_GoodLoginCase ==
    /\ attempt.called
    /\ ServiceBindConfigured
    /\ NoTransportFault /\ attempt.fault = "none"
    /\ InDirectory(directory, attempt.username)
    /\ attempt.password = PasswordOf(attempt.username)
    /\ \/ Len(config.allowed_group_dns) = 0
       \/ ClaimsMembership(config.allowed_group_dns, MemberOf(attempt.username))

C5_GoodLoginSucceeds ==
    C5_GoodLoginCase =>
        /\ attempt.exc = "None"
        /\ attempt.entry = attempt.username
        /\ attempt.uid = AttrValue(EntryAttr(Person(attempt.username), UsernameAttrOf(config)))
        /\ attempt.display_name = AttrValue(DisplayNameOf(attempt.username))
        /\ flow.state = "completed"

(***************************************************************************)
(* C6.  The group check is vacuous for an empty allow-list and accepts     *)
(* case-insensitively otherwise: with an empty allow-list no attempt is    *)
(* denied for its groups, and an entry one of whose memberOf values        *)
(* equals an allowed DN up to letter case passes the check, also when it   *)
(* has exactly one memberOf value.                                         *)
(***************************************************************************)
C6_GroupCheckAccepts ==
    attempt.called =>
        /\ (Len(config.allowed_group_dns) = 0 =>
               ~attempt.group_checked /\ attempt.detail = None)
        /\ (attempt.group_checked
            /\ ClaimsMembership(config.allowed_group_dns, MemberOf(attempt.entry))
               => attempt.member)

(***************************************************************************)
(* C7.  With a non-empty allow-list no attempt succeeds unless the         *)
(* evaluated entry claims membership in an allowed group, and an attempt   *)
(* whose entry claims none fails with InvalidAuthError carrying the        *)
(* canonical username, shown as 'invalid_auth' with the flow still         *)
(* awaiting credentials.                                                   *)
(***************************************************************************)
C7_GroupCheckDenies ==
    (attempt.called /\ Len(config.allowed_group_dns) > 0 /\ attempt.entry # "-") =>
        /\ (attempt.exc = "None" =>
               ClaimsMembership(config.allowed_group_dns, MemberOf(attempt.entry)))
        /\ (~ClaimsMembership(config.allowed_group_dns, MemberOf(attempt.entry)) =>
               /\ attempt.exc = "InvalidAuthError"
               /\ attempt.detail = attempt.uid
               /\ FormShownWith(InvalidAuth))

(***************************************************************************)
(* C8.  When the bind is accepted and the search that follows returns no   *)
(* entry, the attempt raises LdapError, never InvalidAuthError; the flow   *)
(* shows the form again with 'error', and neither the group check nor a    *)
(* re-bind is run.                                                         *)
(***************************************************************************)
C8_EmptySearchCase ==
    /\ attempt.called
    /\ InitialBindAccepted
    /\ \E i \in 1..Len(attempt.calls) :
          attempt.calls[i].op = "search" /\ ~attempt.calls[i].ok

C8_EmptySearchIsLdapError ==
    C8_EmptySearchCase =>
        /\ attempt.exc = "LdapError"
        /\ attempt.calls[Len(attempt.calls)].op = "search"
        /\ ServerSearch(directory, attempt.fault) = <<>>
        /\ FormShownWith(GenericError)
        /\ ~attempt.group_checked
        /\ ~HasCall(attempt, "rebind")

C8_Witness ==
    /\ C8_EmptySearchCase
    /\ attempt.fault = "search_timeout"
    /\ Len(directory) > 0
    /\ Len(config.allowed_group_dns) > 0
    /\ ~config.bind_as_user
    /\ flow.errors = GenericError

(***************************************************************************)
(* C9.  A transport fault of an attempt (the connection cannot be opened,  *)
(* the TLS negotiation fails) has the flow show the form again with        *)
(* 'error', the flow still awaiting credentials.                           *)
(***************************************************************************)
C9_TransportFaultShowsError ==
    (attempt.called /\ ~NoTransportFault) => FormShownWith(GenericError)

(***************************************************************************)
(* C10.  Every call of the step with input ends with the form shown again  *)
(* with 'invalid_auth' or 'error', or with completion; no failure of an    *)
(* attempt leaves the step as an unhandled exception.                      *)
(***************************************************************************)
C10_StepNeverRaises ==
    attempt.called =>
        \/ FormShownWith(InvalidAuth)
        \/ FormShownWith(GenericError)
        \/ flow.type = "create_entry" /\ flow.state = "completed"

(***************************************************************************)
(* C11.  Round trip of the login flow: the step called without input       *)
(* returns the form of step 'init' asking for exactly username and         *)
(* password, without error; a step whose validation succeeds returns a     *)
(* completion whose payload holds the username and no password; and what   *)
(* reaches async_get_or_create_credentials, and the credentials it         *)
(* creates, hold the username alone, never the password.                   *)
(***************************************************************************)
UsernameOnly(d) ==
    /\ Keys(d) = {"username"}
    /\ \A kv \in d : kv[2] \in Usernames /\ kv[2] \notin Passwords

C11_FlowRoundTrip ==
    /\ (flow.type = "form" /\ ~attempt.called =>
           /\ flow.step_id = "init"
           /\ flow.schema = <<"username", "password">>
           /\ flow.errors = {}
           /\ flow.state = "awaiting_credentials")
    /\ (flow.type = "create_entry" =>
           /\ attempt.called /\ attempt.exc = "None"
           /\ UsernameOnly(flow.data))
    /\ \A i \in 1..Len(host.pending) : UsernameOnly(host.pending[i])
    /\ \A i \in 1..Len(host.credentials) : UsernameOnly(host.credentials[i])

C11_Witness ==
    /\ flow.type = "form" /\ ~attempt.called
    /\ Len(host.pending) > 0
    /\ Len(host.credentials) > 0

(***************************************************************************)
(* C12.  Calls of the step are independent: whatever calls failed before   *)
(* on this flow, a call with input returns what the same call returns on   *)
(* a fresh flow; a call that does not complete leaves the flow awaiting    *)
(* credentials, and the error it shows is that of this call alone.  No     *)
(* state of the flow counts retries or locks it.                           *)
(***************************************************************************)
FreshFlowResult(t) ==
    StepResult(async_validate_login(config, directory, t.fault, t.username, t.password),
               UserInput(t.username, t.password))

C12_CallsIndependent ==
    [][attempt'.called =>
          /\ flow.state = "awaiting_credentials"
          /\ flow' = FreshFlowResult(attempt')
          /\ (flow'.state # "completed" =>
                 /\ flow'.state = "awaiting_credentials"
                 /\ flow'.errors = ErrorsFor(attempt'.exc))]_vars

C12_Witness ==
    /\ failed = MaxFailed
    /\ attempt.called
    /\ flow.state = "completed"

(***************************************************************************)
(* C13.  Credential resolution never duplicates: however successful        *)
(* logins and calls of async_get_or_create_credentials interleave, the     *)
(* host holds at most one credential per username; a call returns the      *)
(* credential whose stored username equals that of its payload, and        *)
(* creates one only when there is none.                                    *)
(***************************************************************************)
UsernameOfCredential(h, i) == Get(h.credentials[i], "username")

NoDuplicateCredentials(h) ==
    \A i, j \in 1..Len(h.credentials) :
        UsernameOfCredential(h, i) = UsernameOfCredential(h, j) => i = j

\* The step from host to host' is the return of the call in flight at index i.
ReturnsCall(i) ==
    /\ i \in 1..Len(host.pending)
    /\ host'.pending = RemoveAt(host.pending, i)

ResolvedFor(username) ==
    LET known == {k \in 1..Len(host.credentials) : UsernameOfCredential(host, k) = username}
    IN /\ host'.returned \in 1..Len(host'.credentials)
       /\ UsernameOfCredential(host', host'.returned) = username
       /\ IF known # {}
          THEN host'.credentials = host.credentials /\ host'.returned \in known
          ELSE host'.credentials = Append(host.credentials, {<<"username", username>>})

C13_NoDuplicateCredentials ==
    [][/\ NoDuplicateCredentials(host')
       /\ (Len(host'.pending) < Len(host.pending) =>
              \E i \in 1..Len(host.pending) :
                 ReturnsCall(i) /\ ResolvedFor(Get(host.pending[i], "username")))
       /\ (Len(host'.pending) >= Len(host.pending) =>
              host'.credentials = host.credentials)]_vars

\* A second login of a username was resolved to the credential the first
\* one created, after another credential had been created.
C13_Witness ==
    /\ Len(host.credentials) = 2
    /\ host.returned = 1

(***************************************************************************)
(* C14.  STARTTLS ordering: in encryption mode 'starttls' the TLS upgrade  *)
(* is called after the bind has succeeded and before the search, so an     *)
(* attempt whose bind succeeded goes on upgraded; the upgrade is never     *)
(* called after a failed bind nor in the modes 'none' and 'ldaps'.         *)
(***************************************************************************)
StartTlsCalls == {i \in 1..Len(attempt.calls) : attempt.calls[i].op = "starttls"}
SearchCalls == {i \in 1..Len(attempt.calls) : attempt.calls[i].op = "search"}

C14_StartTlsAfterBind ==
    /\ \A i \in StartTlsCalls :
          /\ config.encryption = "starttls"
          /\ i > 1
          /\ attempt.calls[i - 1].op = "bind" /\ attempt.calls[i - 1].ok
          /\ \A j \in SearchCalls : j > i
    /\ ((\E i \in 1..Len(attempt.calls) :
            attempt.calls[i].op = "bind" /\ ~attempt.calls[i].ok) => StartTlsCalls = {})
    /\ ((/\ config.encryption = "starttls"
         /\ \E i \in 1..Len(attempt.calls) :
               attempt.calls[i].op = "bind" /\ attempt.calls[i].ok)
           => StartTlsCalls # {} /\ attempt.exc # "AttributeError")

(***************************************************************************)
(* C15.  Connection lifecycle: every attempt opens one connection of its   *)
(* own, as its first call, and every attempt whose connection was opened   *)
(* ends with that connection closed (unbound), whether it succeeds or      *)
(* fails.                                                                  *)
(***************************************************************************)
OpenCalls == {i \in 1..Len(attempt.calls) : attempt.calls[i].op = "open"}

C15_ConnectionClosed ==
    attempt.called =>
        /\ OpenCalls = {1}
        /\ (attempt.calls[1].ok =>
               attempt.calls[Len(attempt.calls)].op = "unbind")

(***************************************************************************)
(* C17.  Failure precedence follows the order bind, search, group check,   *)
(* re-bind: an attempt whose evaluated entry is in no allowed group and    *)
(* whose password is also wrong for that entry fails with the group        *)
(* denial (InvalidAuthError carrying the canonical username), and no       *)
(* re-bind is attempted.                                                   *)
(***************************************************************************)
C17_BothFailuresCase ==
    /\ attempt.called
    /\ attempt.entry # "-"
    /\ Len(config.allowed_group_dns) > 0
    /\ ~ClaimsMembership(config.allowed_group_dns, MemberOf(attempt.entry))
    /\ attempt.password # PasswordOf(attempt.entry)

C17_GroupDenialFirst ==
    C17_BothFailuresCase =>
        /\ attempt.exc = "InvalidAuthError"
        /\ attempt.detail = attempt.uid
        /\ RebindCalls = {}

(***************************************************************************)
(* C18.  Bind identity: the initial bind uses the configured service       *)
(* account's name and password when bind_as_user is set and the submitted  *)
(* name and password otherwise, never one of each; in Active Directory     *)
(* mode the user of the bind is the raw name, otherwise it is the DN       *)
(* '<username_attribute>=<name>,<base_dn>'.                                *)
(***************************************************************************)
C18_BoundCase == attempt.called /\ Len(attempt.calls) >= 2

C18_BindIdentity ==
    C18_BoundCase =>
        LET bind == attempt.calls[2]
            name == IF config.bind_as_user THEN config.bind_username ELSE attempt.username
        IN /\ bind.op = "bind"
           /\ bind.password = (IF config.bind_as_user THEN config.bind_password
                               ELSE attempt.password)
           /\ bind.user = (IF config.active_directory THEN <<name>>
                           ELSE <<config.username_attribute, name, config.base_dn>>)
           /\ (config.bind_as_user => bind.password # attempt.password)

C18_Witness ==
    /\ C18_BoundCase
    /\ config.bind_as_user
    /\ config.active_directory
    /\ attempt.calls[2].user = <<ServiceName>>
    /\ attempt.calls[2].ok

(***************************************************************************)
(* C19.  The username of the completion payload, and so the key under      *)
(* which the credential is found or created, is the username as it was     *)
(* submitted to the step, not the canonical username read from the         *)
(* directory: logins with different submitted usernames get different      *)
(* credentials even when the same entry was evaluated for them.            *)
(***************************************************************************)
Submitted(t) == {<<"username", t.username>>}

C19_PayloadIsSubmittedUsername ==
    [][/\ (flow'.type = "create_entry" => flow'.data = Submitted(attempt'))
       /\ (Len(host'.pending) > Len(host.pending) =>
              host'.pending = Append(host.pending, Submitted(attempt)))
       /\ (Len(host'.credentials) > Len(host.credentials) =>
              \E i \in 1..Len(host.pending) :
                 host'.credentials = Append(host.credentials, host.pending[i]))]_vars

\* Two credentials although every login evaluated the one entry of the directory.
C19_Witness ==
    /\ Len(directory) = 1
    /\ config.bind_as_user
    /\ Len(host.credentials) = 2
    /\ UsernameOfCredential(host, 1) # UsernameOfCredential(host, 2)
    /\ flow.type = "create_entry"
    /\ attempt.uid # Str(attempt.username)

(***************************************************************************)
(* C16.  Two runs of async_validate_login for different users on the same  *)
(* provider are independent: however their steps alternate, a run ends     *)
(* with the trace and the outcome it has when it runs alone, and no step   *)
(* changes the provider's configuration, the one thing the runs share.     *)
(***************************************************************************)
Alone(t) == async_validate_login(config, directory, t.fault, t.username, t.password)

C16_RunsIndependent ==
    /\ [](\A r \in Runs : runs[r].pc = "done" => runs[r].t = Alone(runs[r].t))
    /\ [][config' = config /\ directory' = directory]_vars

\* Both runs have ended, their steps having alternated, one admitted and the
\* other turned away.
C16_Witness ==
    /\ \A r \in Runs : runs[r].pc = "done" /\ runs[r].overlapped
    /\ runs["r1"].t.username # runs["r2"].t.username
    /\ runs["r1"].t.exc = "None"
    /\ runs["r2"].t.exc = "InvalidAuthError"
    /\ HasCall(runs["r1"].t, "rebind") /\ HasCall(runs["r2"].t, "rebind")
====
